---- MODULE Spec2Model ----
(***************************************************************************)
(* The build pass of lib/stack.ts: the Stack constructor calls one builder *)
(* method after the other; each builder adds constructs to the stack and   *)
(* wires them to constructs built before.  A state is the construct graph  *)
(* built so far together with the position of the constructor.             *)
(***************************************************************************)
EXTENDS FiniteSets, Integers, Sequences, TLC

VARIABLES
  pc,           \* the builder call the constructor is about to make, or "done"
  error,        \* "none", or the kind of exception that left the constructor
  graph,        \* construct id -> node; its domain is the set of built constructs
  order,        \* the construct ids in the order they were constructed
  secretReads,  \* the fields read from the cluster's secret, in call order
  cfg           \* what the build reads from outside: zone name, secret, ./app

vars == <<pc, error, graph, order, secretReads, cfg>>

----------------------------------------------------------------------------
(* Constants of the source *)

HOSTED_ZONE_ID == "xxx"
ZONE_NAME == "yyy.com"
CONTAINER_PORT == 80
CONTAINER_HEALTHCHECK_PATH == "/foo/bar.html"

(* Bounds of the model *)

MaxZones == 2      \* how many zone names the build is tried with
MaxSecrets == 2    \* how many usernames / passwords the generated secret may hold

ZoneNamePool == <<ZONE_NAME, "example.com", "example.org", "example.net">>
UsernamePool == <<"admin", "dbadmin", "root", "owner">>
PasswordPool == <<"pw-a", "pw-b", "pw-c", "pw-d">>

ZoneNames == {ZoneNamePool[i] : i \in 1..MaxZones}
Usernames == {UsernamePool[i] : i \in 1..MaxSecrets}
Passwords == {PasswordPool[i] : i \in 1..MaxSecrets}

----------------------------------------------------------------------------
(* Nodes of the construct graph *)

NoProps == [k \in {} |-> ""]
NoNums == [k \in {} |-> 0]

Node(kind, refs, props, nums) ==
  [kind |-> kind, refs |-> refs, props |-> props, nums |-> nums,
   domains |-> <<>>, rules |-> <<>>, ingress |-> <<>>]

Built == DOMAIN graph
Defined(id) == id \in DOMAIN graph

\* the arguments among ids that are not undefined
Given(ids) == {a \in ids : Defined(a)}

Add(g, id, node) == (id :> node) @@ g

----------------------------------------------------------------------------
(* The constructor: the fixed sequence of builder calls *)

Steps == <<"zone", "vpc", "waf", "bucket", "rds", "cache", "ecs",
           "certificate", "service", "distribution", "record">>

StepIndex(s) == CHOOSE i \in 1..Len(Steps) : Steps[i] = s

NextStep(s) ==
  IF StepIndex(s) = Len(Steps) THEN "done" ELSE Steps[StepIndex(s) + 1]

\* the constructs each builder call is handed as explicit arguments
Args(s) ==
  CASE s = "rds" -> {"Vpc"}
    [] s = "cache" -> {"Vpc"}
    [] s = "ecs" -> {"Vpc"}
    [] s = "certificate" -> {"Zone"}
    [] s = "service" -> {"Cluster", "Database", "CacheCluster", "RdsSecurityGroup",
                         "CacheSecurityGroup", "Certificate", "Bucket"}
    [] s = "distribution" -> {"Zone", "Certificate", "Service", "WebAcl"}
    [] s = "record" -> {"Zone", "Distribution"}
    [] OTHER -> {}

Running(s) == pc = s /\ error = "none"

\* a builder returns: the constructor moves on to its next call
Return == pc' = NextStep(pc) /\ error' = "none"

\* faulty variant: the exception is caught and the constructor carries on
AbortSwallowed(err) == pc' = NextStep(pc) /\ error' = "none"

\* an exception leaves the builder and, uncaught, the constructor
Abort(err) == pc' = pc /\ error' = err

Init ==
  /\ pc = Steps[1]
  /\ error = "none"
  /\ graph = [id \in {} |-> Node("", {}, NoProps, NoNums)]
  /\ order = <<>>
  /\ secretReads = <<>>
  /\ cfg \in [zoneName : ZoneNames, username : Usernames, password : Passwords,
              appDir : BOOLEAN]

----------------------------------------------------------------------------
(* Builders without dependencies on the secret *)

ImportRoute53Zone ==
  /\ Running("zone")
  /\ graph' = Add(graph, "Zone",
       Node("HostedZone", {},
            "hostedZoneId" :> HOSTED_ZONE_ID @@ "zoneName" :> cfg.zoneName, NoNums))
  /\ order' = Append(order, "Zone")
  /\ Return
  /\ UNCHANGED <<secretReads, cfg>>

CreateVpc ==
  /\ Running("vpc")
  /\ graph' = Add(graph, "Vpc",
       Node("Vpc", {}, "subnets" :> "public,private",
            "maxAzs" :> 2 @@ "natGateways" :> 1 @@ "cidrMask" :> 24))
  /\ order' = Append(order, "Vpc")
  /\ Return
  /\ UNCHANGED <<secretReads, cfg>>

CreateBucket ==
  /\ Running("bucket")
  /\ graph' = Add(graph, "Bucket", Node("Bucket", {}, NoProps, NoNums))
  /\ order' = Append(order, "Bucket")
  /\ Return
  /\ UNCHANGED <<secretReads, cfg>>

CreateEcsCluster ==
  /\ Running("ecs")
  /\ graph' = Add(graph, "Cluster", Node("EcsCluster", Given({"Vpc"}), NoProps, NoNums))
  /\ order' = Append(order, "Cluster")
  /\ Return
  /\ UNCHANGED <<secretReads, cfg>>

----------------------------------------------------------------------------
(* createWafWebAcl: the managed rule groups, mapped over their list index *)

ManagedRuleNames ==
  <<"AWSManagedRulesCommonRuleSet", "AWSManagedRulesPHPRuleSet",
    "AWSManagedRulesWordPressRuleSet", "AWSManagedRulesSQLiRuleSet">>

\* faulty variant: the index is dropped, every rule gets priority 2
WafRuleSamePriority(name, index) ==
  [name |-> name, priority |-> 2, overrideAction |-> "none", vendorName |-> "AWS",
   metricName |-> name \o "Metric"]

\* the callback of .map((name, index) => ...); index counts from 0
WafRule(name, index) ==
  [name |-> name, priority |-> index + 2, overrideAction |-> "none",
   vendorName |-> "AWS", metricName |-> name \o "Metric"]

WafRules == [i \in 1..Len(ManagedRuleNames) |-> WafRule(ManagedRuleNames[i], i - 1)]

CreateWafWebAcl ==
  /\ Running("waf")
  /\ graph' = Add(graph, "WebAcl",
       [Node("WebACL", {},
             "defaultAction" :> "allow" @@ "scope" :> "CLOUDFRONT"
               @@ "metricName" :> "WebAcl" @@ "attrArn" :> "WebAcl.Arn",
             NoNums)
        EXCEPT !.rules = WafRules])
  /\ order' = Append(order, "WebAcl")
  /\ Return
  /\ UNCHANGED <<secretReads, cfg>>

----------------------------------------------------------------------------
(* createRdsCluster, createCacheCluster: a security group, then the cluster *)

SecurityGroup(description) ==
  Node("SecurityGroup", Given({"Vpc"}), "description" :> description, NoNums)

\* faulty variant: the cluster is constructed first, the group attached afterwards
RdsConstructionOrderLate == <<"Database", "RdsSecurityGroup">>

RdsConstructionOrder == <<"RdsSecurityGroup", "Database">>

CreateRdsCluster ==
  /\ Running("rds")
  /\ graph' =
       Add(Add(graph, "RdsSecurityGroup", SecurityGroup("Security group for RDS cluster")),
           "Database",
           Node("DatabaseCluster", Given({"Vpc"}) \cup {"RdsSecurityGroup"},
                "engine" :> "aurora-mysql" @@ "version" :> "3.07.1"
                  @@ "writer" :> "writer" @@ "instanceType" :> "m7g.medium"
                  @@ "defaultDatabaseName" :> "mysql"
                  @@ "hostname" :> "Database.Endpoint.Address",
                "writers" :> 1 @@ "readers" :> 1))
  /\ order' = order \o RdsConstructionOrder
  /\ Return
  /\ UNCHANGED <<secretReads, cfg>>

CreateCacheCluster ==
  /\ Running("cache")
  /\ graph' =
       Add(Add(graph, "CacheSecurityGroup",
               SecurityGroup("Security group for Redis cache cluster")),
           "CacheCluster",
           Node("CacheCluster", {"CacheSecurityGroup"},
                "engine" :> "redis" @@ "engineVersion" :> "7.0"
                  @@ "cacheNodeType" :> "cache.t6g.large"
                  @@ "attrRedisEndpointAddress" :> "CacheCluster.RedisEndpoint.Address",
                "numCacheNodes" :> 2))
  /\ order' = order \o <<"CacheSecurityGroup", "CacheCluster">>
  /\ Return
  /\ UNCHANGED <<secretReads, cfg>>

----------------------------------------------------------------------------
(* createCertificate *)

Wildcard(zoneName) == "*." \o zoneName

\* domainName followed by subjectAlternativeNames
CertificateDomains(zoneName) == <<zoneName, Wildcard(zoneName)>>

CreateCertificate ==
  /\ Running("certificate")
  /\ IF ~Defined("Zone")
       THEN Abort("TypeError") /\ UNCHANGED <<graph, order>>
       ELSE /\ graph' = Add(graph, "Certificate",
                 [Node("Certificate", {"Zone"}, "validation" :> "dns", NoNums)
                  EXCEPT !.domains = CertificateDomains(graph["Zone"].props["zoneName"])])
            /\ order' = Append(order, "Certificate")
            /\ Return
  /\ UNCHANGED <<secretReads, cfg>>

----------------------------------------------------------------------------
(* createLoadBalancedEcsService *)

\* rdsCluster.secret.secretValueFromJson(field).unsafeUnwrap(): the field of the
\* cluster's generated secret, as it reaches the container
SecretValueFromJson(field) == cfg[field]

\* faulty variant: DB_PASSWORD is bound from a second read of "username"
SecretReadFieldsUsernameTwice == <<"username", "username">>

\* the secretValueFromJson calls of the environment literal, in evaluation order
SecretReadFields == <<"username", "password">>

\* faulty variant: optional chaining on the clusters, nothing is dereferenced
EnvironmentFaultNone == "none"

\* the binding whose evaluation dereferences an undefined argument
EnvironmentFault ==
  IF ~Defined("Database") THEN "DB_HOST"
  ELSE IF ~Defined("CacheCluster") THEN "CACHE_HOST"
  ELSE "none"

SecretReadsBefore(fault) == IF fault = "DB_HOST" THEN <<>> ELSE SecretReadFields

\* taskImageOptions.environment; an undefined argument reaches it only when
\* nothing dereferenced it before
ServiceEnvironment ==
  "DB_HOST" :> (IF Defined("Database")
                  THEN graph["Database"].props["hostname"] ELSE "undefined")
  @@ "DB_USER" :> SecretValueFromJson(SecretReadFields[1])
  @@ "DB_PASSWORD" :> SecretValueFromJson(SecretReadFields[2])
  @@ "DB_NAME" :> "wordpress"
  @@ "CACHE_HOST" :> (IF Defined("CacheCluster")
                        THEN graph["CacheCluster"].props["attrRedisEndpointAddress"]
                        ELSE "undefined")

ServiceNode ==
  Node("FargateService",
       Given({"Cluster", "Certificate", "Database", "CacheCluster"}),
       ServiceEnvironment @@ "image" :> "./app"
         @@ "healthCheckPath" :> CONTAINER_HEALTHCHECK_PATH
         @@ "loadBalancer" :> "Service.LoadBalancer",
       "memoryLimitMiB" :> 1024 @@ "listenerPort" :> 443
         @@ "containerPort" :> CONTAINER_PORT @@ "desiredCount" :> 2)

\* securityGroup.addIngressRule(peer, Port.tcp(port)): one more rule on the group
AddIngressRule(g, group, peer, port) ==
  [g EXCEPT ![group].ingress = Append(@, [peer |-> peer, port |-> port])]

\* faulty variant: the two ports are exchanged
ServiceIngressPortsSwapped ==
  <<[group |-> "RdsSecurityGroup", port |-> 6379],
    [group |-> "CacheSecurityGroup", port |-> 3306]>>

\* the two addIngressRule calls; the peer of both is the service's security group
ServiceIngress ==
  <<[group |-> "RdsSecurityGroup", port |-> 3306],
    [group |-> "CacheSecurityGroup", port |-> 6379]>>

\* autoScaleTaskCount, scaleOnCpuUtilization, scaleOnRequestCount
WithScaling(g) ==
  Add(Add(Add(g, "TaskCount",
              Node("ScalableTarget", {"Service"}, NoProps,
                   "minCapacity" :> 1 @@ "maxCapacity" :> 3)),
          "CpuScaling",
          Node("ScalingPolicy", {"TaskCount"}, NoProps,
               "targetUtilizationPercent" :> 50)),
      "RequestScaling",
      Node("ScalingPolicy", {"TaskCount", "Service"}, NoProps,
           "requestsPerTarget" :> 10000))

\* bucket.grantReadWrite(taskRole): a policy on the service's task role
WithGrant(g) ==
  Add(g, "TaskRolePolicy",
      Node("Policy", {"Service", "Bucket"}, "actions" :> "ReadWrite", NoNums))

CreateLoadBalancedEcsService ==
  /\ Running("service")
  /\ UNCHANGED cfg
  /\ LET fault == EnvironmentFault
         g1 == Add(graph, "Service", ServiceNode)
         o1 == Append(order, "Service")
         g2 == AddIngressRule(g1, ServiceIngress[1].group, "Service", ServiceIngress[1].port)
         g3 == AddIngressRule(g2, ServiceIngress[2].group, "Service", ServiceIngress[2].port)
         g4 == WithScaling(g3)
         o4 == o1 \o <<"TaskCount", "CpuScaling", "RequestScaling">>
     IN  IF fault # "none"
           THEN \* TypeError while the environment literal is evaluated
                /\ Abort("TypeError")
                /\ secretReads' = secretReads \o SecretReadsBefore(fault)
                /\ UNCHANGED <<graph, order>>
           ELSE /\ secretReads' = secretReads \o SecretReadFields
                /\ CASE ~cfg.appDir ->
                          \* the image asset's directory does not exist
                          Abort("Error") /\ UNCHANGED <<graph, order>>
                     [] cfg.appDir /\ ~Defined(ServiceIngress[1].group) ->
                          Abort("TypeError") /\ graph' = g1 /\ order' = o1
                     [] /\ cfg.appDir /\ Defined(ServiceIngress[1].group)
                        /\ ~Defined(ServiceIngress[2].group) ->
                          Abort("TypeError") /\ graph' = g2 /\ order' = o1
                     [] /\ cfg.appDir /\ Defined(ServiceIngress[1].group)
                        /\ Defined(ServiceIngress[2].group) /\ ~Defined("Bucket") ->
                          Abort("TypeError") /\ graph' = g4 /\ order' = o4
                     [] OTHER ->
                          /\ graph' = WithGrant(g4)
                          /\ order' = Append(o4, "TaskRolePolicy")
                          /\ Return

----------------------------------------------------------------------------
(* createCloudfrontDistribution, createRoute53Record *)

\* faulty variant: the wildcard name is bound to the distribution as well
DistributionDomainsWithWildcard(zoneName) == <<zoneName, Wildcard(zoneName)>>

\* domainNames: [route53Zone.zoneName]
DistributionDomains(zoneName) == <<zoneName>>

\* faulty variant: the database password is forwarded to the origin as a custom header
DistributionPropsWithSecret ==
  "origin" :> graph["Service"].props["loadBalancer"]
  @@ "originHeader" :> graph["Service"].props["DB_PASSWORD"]
  @@ "webAclId" :> graph["WebAcl"].props["attrArn"]

DistributionProps ==
  "origin" :> graph["Service"].props["loadBalancer"]
  @@ "protocolPolicy" :> "HTTPS_ONLY"
  @@ "viewerProtocolPolicy" :> "REDIRECT_TO_HTTPS"
  @@ "allowedMethods" :> "ALLOW_ALL"
  @@ "cachedMethods" :> "CACHE_GET_HEAD_OPTIONS"
  @@ "webAclId" :> graph["WebAcl"].props["attrArn"]

DistributionNode ==
  [Node("Distribution", Given({"Certificate"}) \cup {"Service", "WebAcl"},
        DistributionProps, "httpPort" :> 80 @@ "httpsPort" :> 443)
   EXCEPT !.domains = DistributionDomains(graph["Zone"].props["zoneName"])]

\* faulty variant: the builder also admits the distribution to the database's group
GraphWithDistributionAndRule ==
  AddIngressRule(Add(graph, "Distribution", DistributionNode),
                 "RdsSecurityGroup", "Distribution", 3306)

\* the graph the builder leaves: the new distribution, nothing else touched
GraphWithDistribution == Add(graph, "Distribution", DistributionNode)

CreateCloudfrontDistribution ==
  /\ Running("distribution")
  /\ IF ~Defined("Service") \/ ~Defined("Zone") \/ ~Defined("WebAcl")
       THEN Abort("TypeError") /\ UNCHANGED <<graph, order>>
       ELSE /\ graph' = GraphWithDistribution
            /\ order' = Append(order, "Distribution")
            /\ Return
  /\ UNCHANGED <<secretReads, cfg>>

CreateRoute53Record ==
  /\ Running("record")
  /\ graph' = Add(graph, "ARecord",
       Node("ARecord", Given({"Zone", "Distribution"}), "target" :> "alias", NoNums))
  /\ order' = Append(order, "ARecord")
  /\ Return
  /\ UNCHANGED <<secretReads, cfg>>

----------------------------------------------------------------------------
(* The build pass run by bin/app.ts *)

Next ==
  \/ ImportRoute53Zone
  \/ CreateVpc
  \/ CreateWafWebAcl
  \/ CreateBucket
  \/ CreateRdsCluster
  \/ CreateCacheCluster
  \/ CreateEcsCluster
  \/ CreateCertificate
  \/ CreateLoadBalancedEcsService
  \/ CreateCloudfrontDistribution
  \/ CreateRoute53Record

Spec == Init /\ [][Next]_vars

(* The builders called one by one by a caller that may leave out the bucket, *)
(* the relational cluster or the cache: the later builders then receive      *)
(* undefined for what the omitted builder would have returned.               *)

Skippable == {"bucket", "rds", "cache"}

SkipBuilder ==
  /\ pc \in Skippable
  /\ error = "none"
  /\ Return
  /\ UNCHANGED <<graph, order, secretReads, cfg>>

NextCall == Next \/ SkipBuilder

SpecCall == Init /\ [][NextCall]_vars

----------------------------------------------------------------------------
(* Helpers of the properties *)

Range(seq) == {seq[i] : i \in 1..Len(seq)}

IsPrefix(a, b) == Len(a) <= Len(b) /\ \A i \in 1..Len(a) : a[i] = b[i]

Pos(id) == CHOOSE i \in 1..Len(order) : order[i] = id

OfKind(kind) == {r \in Built : graph[r].kind = kind}

RECURSIVE Closure(_, _)
Closure(S, n) ==
  IF n = 0 THEN S
  ELSE Closure(S \cup UNION {graph[x].refs \cap Built : x \in S}, n - 1)

\* the constructs r references, directly or through other constructs
Reachable(r) == Closure(graph[r].refs \cap Built, Cardinality(Built))

AllConstructs ==
  {"Zone", "Vpc", "WebAcl", "Bucket", "RdsSecurityGroup", "Database",
   "CacheSecurityGroup", "CacheCluster", "Cluster", "Certificate", "Service",
   "TaskCount", "CpuScaling", "RequestScaling", "TaskRolePolicy", "Distribution",
   "ARecord"}

\* the constructs each builder call adds to the stack
ConstructsOf(s) ==
  CASE s = "zone" -> {"Zone"}
    [] s = "vpc" -> {"Vpc"}
    [] s = "waf" -> {"WebAcl"}
    [] s = "bucket" -> {"Bucket"}
    [] s = "rds" -> {"RdsSecurityGroup", "Database"}
    [] s = "cache" -> {"CacheSecurityGroup", "CacheCluster"}
    [] s = "ecs" -> {"Cluster"}
    [] s = "certificate" -> {"Certificate"}
    [] s = "service" -> {"Service", "TaskCount", "CpuScaling", "RequestScaling",
                         "TaskRolePolicy"}
    [] s = "distribution" -> {"Distribution"}
    [] s = "record" -> {"ARecord"}

SecurityGroups == OfKind("SecurityGroup")

\* every string a node carries
StringsOf(r) ==
  {graph[r].props[k] : k \in DOMAIN graph[r].props}
    \cup Range(graph[r].domains)
    \cup {graph[r].rules[i].name : i \in 1..Len(graph[r].rules)}
    \cup {graph[r].rules[i].metricName : i \in 1..Len(graph[r].rules)}

Credentials == {cfg.username, cfg.password}

----------------------------------------------------------------------------
(* C1: every construct is built strictly after every construct it          *)
(* references, the reference graph is acyclic, and an ingress rule exists  *)
(* only once both its group and its peer exist.                            *)
C1_BuiltAfterDependencies ==
  /\ Range(order) = Built /\ Len(order) = Cardinality(Built)
  /\ \A r \in Built : \A d \in graph[r].refs : d \in Built /\ Pos(d) < Pos(r)
  /\ \A r \in Built : r \notin Reachable(r)
  /\ \A r \in Built : \A i \in 1..Len(graph[r].ingress) :
       graph[r].ingress[i].peer \in Built

C1_Witness ==
  /\ pc = "done"
  /\ Built = AllConstructs
  /\ graph["Service"].refs = {"Cluster", "Certificate", "Database", "CacheCluster"}
  /\ "RdsSecurityGroup" \in Reachable("ARecord")

(* C2: when the build pass has finished, a security group's ingress rules  *)
(* hold no (peer, port) pair twice, every peer is the service that was     *)
(* handed the group, and each group has exactly one rule: 3306 on the RDS  *)
(* group, 6379 on the cache group.                                         *)
C2_IngressRules ==
  /\ \A g \in SecurityGroups :
       LET rules == graph[g].ingress
       IN  /\ \A i, j \in 1..Len(rules) : rules[i] = rules[j] => i = j
           /\ \A i \in 1..Len(rules) :
                rules[i].peer = "Service" /\ g \in Args("service")
  /\ pc = "done" =>
       /\ SecurityGroups = {"RdsSecurityGroup", "CacheSecurityGroup"}
       /\ graph["RdsSecurityGroup"].ingress = <<[peer |-> "Service", port |-> 3306]>>
       /\ graph["CacheSecurityGroup"].ingress = <<[peer |-> "Service", port |-> 6379]>>

C2_Witness ==
  /\ pc = "done"
  /\ Len(graph["RdsSecurityGroup"].ingress) = 1
  /\ Len(graph["CacheSecurityGroup"].ingress) = 1

(* C3: a build step leaves every construct built before as it was, except  *)
(* that the ingress rules of a security group may grow, and only in a      *)
(* builder that was handed the group; after the constructor has returned   *)
(* nothing changes.                                                        *)
WithoutIngress(node) == [node EXCEPT !.ingress = <<>>]

C3_Frame ==
  [][/\ \A r \in Built :
          /\ r \in DOMAIN graph'
          /\ WithoutIngress(graph'[r]) = WithoutIngress(graph[r])
          /\ IsPrefix(graph[r].ingress, graph'[r].ingress)
          /\ graph'[r].ingress # graph[r].ingress =>
               r \in SecurityGroups /\ r \in Args(pc)
     /\ pc = "done" => graph' = graph]_vars

C3_Witness ==
  /\ pc = "distribution"
  /\ error = "none"
  /\ Pos("RdsSecurityGroup") < Pos("Service")
  /\ Len(graph["RdsSecurityGroup"].ingress) = 1

(* C4 as stated: one build pass reads the secret once.                     *)
C4_SingleSecretRead ==
  pc = "done" => Len(secretReads) = 1

(* C4 amended: one build pass reads each field of the secret, username and *)
(* password, exactly once: two reads, none repeated.                       *)
C4_OneReadPerField ==
  /\ \A f \in {"username", "password"} :
       Cardinality({i \in 1..Len(secretReads) : secretReads[i] = f}) <= 1
  /\ Range(secretReads) \subseteq {"username", "password"}
  /\ Defined("Service") =>
       Range(secretReads) = {"username", "password"} /\ Len(secretReads) = 2

C4_Witness ==
  pc = "done" /\ Defined("Service") /\ Len(secretReads) = 2

(* C5: the username and password of the database appear nowhere in the     *)
(* graph but in the service's DB_USER and DB_PASSWORD bindings.            *)
C5_CredentialsPrivate ==
  /\ \A r \in Built \ {"Service"} : StringsOf(r) \cap Credentials = {}
  /\ Defined("Service") =>
       /\ \A k \in DOMAIN graph["Service"].props :
            graph["Service"].props[k] \in Credentials => k \in {"DB_USER", "DB_PASSWORD"}
       /\ Range(graph["Service"].domains) \cap Credentials = {}

C5_Witness ==
  /\ pc = "done"
  /\ graph["Service"].props["DB_USER"] = cfg.username
  /\ graph["Service"].props["DB_PASSWORD"] = cfg.password
  /\ Defined("Distribution")

(* C6: once the firewall builder has ended, exactly one of two holds: the  *)
(* ACL exists and its rules have strictly increasing, pairwise distinct    *)
(* priorities and pairwise distinct metric names made from the rule names; *)
(* or the builder failed with PolicyConflictError and built nothing.       *)
WafEnded == pc \notin {"zone", "vpc"} /\ ~(pc = "waf" /\ error = "none")

WafPolicyWellFormed ==
  /\ Defined("WebAcl")
  /\ LET rules == graph["WebAcl"].rules
     IN  /\ Len(rules) = Len(ManagedRuleNames)
         /\ \A i \in 1..Len(rules) - 1 : rules[i].priority < rules[i + 1].priority
         /\ \A i, j \in 1..Len(rules) :
              i # j => /\ rules[i].priority # rules[j].priority
                       /\ rules[i].metricName # rules[j].metricName
         /\ \A i \in 1..Len(rules) : rules[i].metricName = rules[i].name \o "Metric"

WafPolicyConflict ==
  pc = "waf" /\ error = "PolicyConflictError" /\ ~Defined("WebAcl")

C6_WafOutcome ==
  WafEnded => (WafPolicyWellFormed \/ WafPolicyConflict)
                /\ ~(WafPolicyWellFormed /\ WafPolicyConflict)

C6_Witness ==
  /\ pc = "bucket"
  /\ Defined("WebAcl")
  /\ graph["WebAcl"].rules[1].priority = 2
  /\ graph["WebAcl"].rules[4].priority = 5

(* C7 as stated: the service builder, invoked without a relational        *)
(* cluster, fails with DependencyOrderError and builds nothing.            *)
ServiceFailedWithoutCluster ==
  pc = "service" /\ error # "none" /\ ~Defined("Database")

NothingOfTheService ==
  /\ ~Defined("Service")
  /\ ~Defined("TaskCount") /\ ~Defined("CpuScaling") /\ ~Defined("RequestScaling")
  /\ \A g \in SecurityGroups : graph[g].ingress = <<>>

C7_DependencyOrderError ==
  ServiceFailedWithoutCluster =>
    error = "DependencyOrderError" /\ NothingOfTheService

(* C7 amended: the service builder makes no check of its own; invoked      *)
(* without a relational cluster it fails with the TypeError of reading the *)
(* endpoint of undefined, before anything is built: no service, no ingress *)
(* rule, no scaling controller, and the constructor goes no further.       *)
C7_TypeErrorWithoutCluster ==
  /\ ServiceFailedWithoutCluster => error = "TypeError" /\ secretReads = <<>>
  /\ ~Defined("Database") =>
       NothingOfTheService /\ pc \notin {"distribution", "record", "done"}

C7_Witness ==
  /\ ServiceFailedWithoutCluster
  /\ error = "TypeError"
  /\ Defined("Cluster") /\ Defined("Certificate") /\ Defined("CacheCluster")

(* C8: an error ends the build pass where it is raised: no later builder   *)
(* runs and the constructor does not return; the constructor returns only  *)
(* with every construct built and every wiring step in place.              *)
CompleteGraph ==
  /\ Built = AllConstructs
  /\ \A g \in {"RdsSecurityGroup", "CacheSecurityGroup"} :
       Len(graph[g].ingress) = 1 /\ graph[g].ingress[1].peer = "Service"
  /\ graph["CpuScaling"].refs = {"TaskCount"}
  /\ graph["RequestScaling"].refs = {"TaskCount", "Service"}
  /\ graph["TaskRolePolicy"].refs = {"Service", "Bucket"}
  /\ graph["ARecord"].refs = {"Zone", "Distribution"}

C8_NoPartialSuccess ==
  [][/\ error = "none"
     /\ pc' = "done" => error' = "none" /\ CompleteGraph'
     /\ error' # "none" =>
          /\ pc' = pc
          /\ pc' # "done"
          /\ \A s \in Range(Steps) : StepIndex(s) > StepIndex(pc) =>
               ConstructsOf(s) \cap DOMAIN graph' = {}]_vars

C8_Witness ==
  /\ pc = "service"
  /\ error = "Error"
  /\ ~cfg.appDir
  /\ ~Defined("Service") /\ ~Defined("Distribution") /\ ~Defined("ARecord")

(* C9 as stated: the finished graph has one relational cluster with one    *)
(* writer, one service with one scaling controller bounded [1, 3], one     *)
(* certificate for {Z, *.Z}, one firewall policy, and one distribution     *)
(* bound to both Z and *.Z that uses that certificate and that policy.     *)
OneOfEach ==
  /\ OfKind("DatabaseCluster") = {"Database"}
  /\ graph["Database"].nums["writers"] = 1
  /\ OfKind("FargateService") = {"Service"}
  /\ OfKind("ScalableTarget") = {"TaskCount"}
  /\ graph["TaskCount"].refs = {"Service"}
  /\ graph["TaskCount"].nums["minCapacity"] = 1
  /\ graph["TaskCount"].nums["maxCapacity"] = 3
  /\ OfKind("Certificate") = {"Certificate"}
  /\ Range(graph["Certificate"].domains) = {cfg.zoneName, Wildcard(cfg.zoneName)}
  /\ OfKind("WebACL") = {"WebAcl"}
  /\ OfKind("Distribution") = {"Distribution"}
  /\ {"Certificate", "WebAcl"} \subseteq graph["Distribution"].refs
  /\ graph["Distribution"].props["webAclId"] = graph["WebAcl"].props["attrArn"]

C9_DistributionBoundToWildcard ==
  pc = "done" =>
    /\ OneOfEach
    /\ Range(graph["Distribution"].domains) = {cfg.zoneName, Wildcard(cfg.zoneName)}

(* C9 amended: as stated, but the distribution is bound to Z alone, a name *)
(* of the certificate's domain set {Z, *.Z}; it is not bound to *.Z.       *)
C9_DistributionBoundToApex ==
  pc = "done" =>
    /\ OneOfEach
    /\ graph["Distribution"].domains = <<cfg.zoneName>>
    /\ Range(graph["Distribution"].domains) \subseteq Range(graph["Certificate"].domains)

C9_Witness ==
  /\ pc = "done"
  /\ Defined("Distribution")
  /\ Len(graph["Certificate"].domains) = 2
  /\ graph["TaskCount"].nums["maxCapacity"] = 3

(* C10: the service's environment agrees with the constructs it was taken  *)
(* from: DB_HOST is the cluster's endpoint hostname, CACHE_HOST the        *)
(* cache's endpoint address, DB_NAME the cluster's default database name.  *)
C10_EnvironmentAgrees ==
  Defined("Service") =>
    /\ graph["Service"].props["DB_HOST"] = graph["Database"].props["hostname"]
    /\ graph["Service"].props["CACHE_HOST"] =
         graph["CacheCluster"].props["attrRedisEndpointAddress"]
    /\ graph["Service"].props["DB_NAME"] = graph["Database"].props["defaultDatabaseName"]

====
